---- MODULE Spec2Model ----
(***************************************************************************)
(* Model of garnish-phrases: the phrase reducer (src/src/lib.rs) run over  *)
(* a parse tree held in an index arena, against a phrase registry          *)
(* (src/src/context.rs).                                                   *)
(*                                                                         *)
(* Arena indices are the source's 0-based usize values; the arena itself   *)
(* is a sequence, so node i is nodes[i + 1].  Option<usize> is an integer  *)
(* with None standing for Option::None.  Token text is a string and the    *)
(* phrase join is string concatenation with "_", as in the source.         *)
(* The secondary definition and the token type of a node are never read    *)
(* by the reducer and are left out of the node record.                     *)
(***************************************************************************)
EXTENDS Integers, Sequences, FiniteSets, TLC

None == -1

\* ---------------------------------------------------------------- bounds
\* nodes of a freely shaped and freely labelled input tree
MaxNodes == 3
\* tokens of a space-separated input sequence
MaxTokens == 5
\* leaves of an input tree of nested lists
MaxLeaves == 4
\* tokens of an input sequence one of whose links is then broken
MaxBroken == 2
\* loop iterations followed per loop in one call
MaxIters == 14
\* characters of a text handed to add_phrase
MaxText == 5
\* calls of add_phrase made on one registry
MaxCalls == 2
Words == {"a", "b"}
ThreeWordPhrases == {<<"a", "a", "b">>}

\* ------------------------------------------------------- context.rs
Incomplete == "Incomplete"
Complete == "Complete"
NotAPhrase == "NotAPhrase"

get_phrase_status(part_map, s) ==
    IF s \in DOMAIN part_map THEN part_map[s] ELSE NotAPhrase

\* lines 3-7: the two error codes, and the Ok(()) of add_phrase
IncompleteVersionExists == "IncompleteVersionExists"
CompleteVersionExists == "CompleteVersionExists"
Ok == "Ok"

\* lines 25-27: the registry after new()
EmptyMap == [s \in {} |-> NotAPhrase]

\* lines 29-31
phrase_count(part_map) == Cardinality(DOMAIN part_map)

\* an insert that forgets what was stored
insert_alone(part_map, key, status) == [s \in {key} |-> status]

\* an insert that stores every key as Complete
insert_complete(part_map, key, status) ==
    [s \in DOMAIN part_map \cup {key} |-> IF s = key THEN Complete ELSE part_map[s]]

\* HashMap::insert
Insert(part_map, key, status) ==
    [s \in DOMAIN part_map \cup {key} |-> IF s = key THEN status ELSE part_map[s]]

\* A text is the sequence of its characters; a segment is the string of
\* the characters between two separators.
RECURSIVE Concat(_)
Concat(chars) ==
    IF chars = <<>> THEN "" ELSE Head(chars) \o Concat(Tail(chars))

\* a split that takes the whole text as one segment
split_whole(text) == <<Concat(text)>>

\* line 34: phrase.split("_"), which yields one segment more than the text
\* has separators, empty ones included
RECURSIVE split(_)
split(text) ==
    IF \A i \in 1 .. Len(text) : text[i] # "_" THEN <<Concat(text)>>
    ELSE LET i == CHOOSE j \in 1 .. Len(text) :
                     text[j] = "_" /\ \A k \in 1 .. j - 1 : text[k] # "_"
         IN  <<Concat(SubSeq(text, 1, i - 1))>>
                 \o split(SubSeq(text, i + 1, Len(text)))

\* lines 48 and 67: running_parts.join("_")
RECURSIVE join(_)
join(running_parts) ==
    IF running_parts = <<>> THEN ""
    ELSE IF Len(running_parts) = 1 THEN running_parts[1]
    ELSE running_parts[1] \o "_" \o join(Tail(running_parts))

\* a loop that takes an empty part for a word
RECURSIVE add_prefixes_keeping_empty(_, _, _, _)
add_prefixes_keeping_empty(part_map, parts, j, running_parts) ==
    IF j > Len(parts) - 1
    THEN [part_map |-> part_map, running_parts |-> running_parts, result |-> Ok]
    ELSE LET running == Append(running_parts, parts[j])
             incomplete_phrase == join(running)
         IN  IF incomplete_phrase \notin DOMAIN part_map
             THEN add_prefixes_keeping_empty(
                      Insert(part_map, incomplete_phrase, Incomplete),
                      parts, j + 1, running)
             ELSE IF part_map[incomplete_phrase] = Complete
             THEN [part_map |-> part_map, running_parts |-> running,
                   result |-> CompleteVersionExists]
             ELSE add_prefixes_keeping_empty(part_map, parts, j + 1, running)

\* a loop that stores no prefix
RECURSIVE add_prefixes_not_storing(_, _, _, _)
add_prefixes_not_storing(part_map, parts, j, running_parts) ==
    IF j > Len(parts) - 1
    THEN [part_map |-> part_map, running_parts |-> running_parts, result |-> Ok]
    ELSE IF parts[j] = ""
    THEN add_prefixes_not_storing(part_map, parts, j + 1, running_parts)
    ELSE LET running == Append(running_parts, parts[j])
             incomplete_phrase == join(running)
         IN  IF incomplete_phrase \in DOMAIN part_map
                   /\ part_map[incomplete_phrase] = Complete
             THEN [part_map |-> part_map, running_parts |-> running,
                   result |-> CompleteVersionExists]
             ELSE add_prefixes_not_storing(part_map, parts, j + 1, running)

\* a loop that never looks at what is stored under a prefix
RECURSIVE add_prefixes_unchecked(_, _, _, _)
add_prefixes_unchecked(part_map, parts, j, running_parts) ==
    IF j > Len(parts) - 1
    THEN [part_map |-> part_map, running_parts |-> running_parts, result |-> Ok]
    ELSE IF parts[j] = ""
    THEN add_prefixes_unchecked(part_map, parts, j + 1, running_parts)
    ELSE LET running == Append(running_parts, parts[j])
             incomplete_phrase == join(running)
         IN  IF incomplete_phrase \notin DOMAIN part_map
             THEN add_prefixes_unchecked(
                      Insert(part_map, incomplete_phrase, Incomplete),
                      parts, j + 1, running)
             ELSE add_prefixes_unchecked(part_map, parts, j + 1, running)

\* lines 43-58: the loop over all parts but the last, from part j on; it
\* returns the map, the running parts and the error it stopped with, if any
RECURSIVE add_prefixes(_, _, _, _)
add_prefixes(part_map, parts, j, running_parts) ==
    IF j > Len(parts) - 1
    THEN [part_map |-> part_map, running_parts |-> running_parts, result |-> Ok]
    ELSE IF parts[j] = ""
    THEN add_prefixes(part_map, parts, j + 1, running_parts)
    ELSE LET running == Append(running_parts, parts[j])
             incomplete_phrase == join(running)
         IN  IF incomplete_phrase \notin DOMAIN part_map
             THEN add_prefixes(Insert(part_map, incomplete_phrase, Incomplete),
                               parts, j + 1, running)
             ELSE IF part_map[incomplete_phrase] = Complete
             THEN [part_map |-> part_map, running_parts |-> running,
                   result |-> CompleteVersionExists]
             ELSE add_prefixes(part_map, parts, j + 1, running)

\* an add_phrase that overwrites the entry it fails on
add_phrase_overwriting(part_map, phrase_text) ==
    LET parts == split(phrase_text)
        looped == add_prefixes(part_map, parts, 1, <<>>)
        part == parts[Len(parts)]
    IN  IF looped.result # Ok
        THEN [part_map |-> looped.part_map, result |-> looped.result]
        ELSE IF part = ""
        THEN [part_map |-> looped.part_map, result |-> Ok]
        ELSE LET complete_phrase == join(Append(looped.running_parts, part))
                 m == looped.part_map
             IN  IF complete_phrase \notin DOMAIN m
                 THEN [part_map |-> Insert(m, complete_phrase, Complete),
                       result |-> Ok]
                 ELSE IF m[complete_phrase] = Incomplete
                 THEN [part_map |-> Insert(m, complete_phrase, Complete),
                       result |-> IncompleteVersionExists]
                 ELSE [part_map |-> m, result |-> Ok]

\* an add_phrase that completes a phrase stored as Incomplete
add_phrase_promoting(part_map, phrase_text) ==
    LET parts == split(phrase_text)
        looped == add_prefixes(part_map, parts, 1, <<>>)
        part == parts[Len(parts)]
    IN  IF looped.result # Ok
        THEN [part_map |-> looped.part_map, result |-> looped.result]
        ELSE IF part = ""
        THEN [part_map |-> looped.part_map, result |-> Ok]
        ELSE LET complete_phrase == join(Append(looped.running_parts, part))
                 m == looped.part_map
             IN  [part_map |-> [s \in DOMAIN m \cup {complete_phrase} |->
                                  IF s = complete_phrase THEN Complete ELSE m[s]],
                  result |-> Ok]

\* an add_phrase that takes an empty last part for a word
add_phrase_last_unchecked(part_map, phrase_text) ==
    LET parts == split(phrase_text)
        looped == add_prefixes(part_map, parts, 1, <<>>)
        part == parts[Len(parts)]
    IN  IF looped.result # Ok
        THEN [part_map |-> looped.part_map, result |-> looped.result]
        ELSE LET complete_phrase == join(Append(looped.running_parts, part))
                 m == looped.part_map
             IN  IF complete_phrase \notin DOMAIN m
                 THEN [part_map |-> Insert(m, complete_phrase, Complete),
                       result |-> Ok]
                 ELSE IF m[complete_phrase] = Incomplete
                 THEN [part_map |-> m, result |-> IncompleteVersionExists]
                 ELSE [part_map |-> m, result |-> Ok]

\* lines 33-80: the map add_phrase leaves and the result it returns
add_phrase(part_map, phrase_text) ==
    LET parts == split(phrase_text)
        looped == add_prefixes(part_map, parts, 1, <<>>)
        part == parts[Len(parts)]
    IN  IF looped.result # Ok
        THEN [part_map |-> looped.part_map, result |-> looped.result]
        ELSE IF part = ""
        THEN [part_map |-> looped.part_map, result |-> Ok]
        ELSE LET complete_phrase == join(Append(looped.running_parts, part))
                 m == looped.part_map
             IN  IF complete_phrase \notin DOMAIN m
                 THEN [part_map |-> Insert(m, complete_phrase, Complete),
                       result |-> Ok]
                 ELSE IF m[complete_phrase] = Incomplete
                 THEN [part_map |-> m, result |-> IncompleteVersionExists]
                 ELSE [part_map |-> m, result |-> Ok]

\* ------------------------------------------------------- parse tree
LexerToken(text, line, column) ==
    [text |-> text, line |-> line, column |-> column]

ParseNode(definition, parent, left, right, lex_token) ==
    [definition |-> definition, parent |-> parent, left |-> left,
     right |-> right, lex_token |-> lex_token]

HasNode(t, i) == i >= 0 /\ i < Len(t.nodes)
get_node(t, i) == t.nodes[i + 1]
add_node(t, n) == [t EXCEPT !.nodes = Append(@, n)]
set_root(t, i) == [t EXCEPT !.root = i]
set_parent(t, i, p) == [t EXCEPT !.nodes[i + 1].parent = p]
set_left(t, i, l) == [t EXCEPT !.nodes[i + 1].left = l]
set_right(t, i, r) == [t EXCEPT !.nodes[i + 1].right = r]
\* a rewrite that writes a definition of its own
set_definition_apply(t, i, d) == [t EXCEPT !.nodes[i + 1].definition = "Apply"]
set_definition(t, i, d) == [t EXCEPT !.nodes[i + 1].definition = d]
set_lex_token(t, i, tok) == [t EXCEPT !.nodes[i + 1].lex_token = tok]

\* ------------------------------------------------------- PhraseInfo
PhraseInfoNew(part) == [phrase_parts |-> <<part>>, arguments |-> <<>>]

RECURSIVE Join(_)
Join(parts) ==
    IF Len(parts) = 0 THEN ""
    ELSE IF Len(parts) = 1 THEN parts[1]
    ELSE parts[1] \o "_" \o Join(Tail(parts))

full_text(info) == Join(info.phrase_parts)
\* a merged text that puts the new part first
full_text_with_front(info, part) == part \o "_" \o full_text(info)
full_text_with(info, part) == full_text(info) \o "_" \o part
add_part(info, part) == [info EXCEPT !.phrase_parts = Append(@, part)]
\* an accumulator that records its newest argument first
add_argument_front(info, argument) ==
    [info EXCEPT !.arguments = <<argument>> \o @]
add_argument(info, argument) == [info EXCEPT !.arguments = Append(@, argument)]

\* a stack read at its bottom
Bottom(s) == s[1]
Last(s) == s[Len(s)]
\* a pop that leaves the stack as it is
PopNothing(s) == s
Pop(s) == SubSeq(s, 1, Len(s) - 1)
SetLast(s, v) == [s EXCEPT ![Len(s)] = v]

\* ------------------------------------------------------- lib.rs: rewrites
\* Outcome of one per-node check: kind "ok" (arg is the candidate argument or
\* None), "err" (the ? operator returned Err), or "walk" (the n >= 2 branch
\* has prepared the descent of the list chain, which runs as WalkStep).
Out(kind, result, phrs, arg, next_parent) ==
    [kind |-> kind, result |-> result, phrases |-> phrs, arg |-> arg,
     next_parent |-> next_parent]

\* a single-word resolution that leaves the root where it was
resolve_keeping_root(node, node_index, result, phrs) ==
    LET new_index == Len(result.nodes)
        r1 == add_node(result, ParseNode("EmptyApply", node.parent, node_index,
                                         None, node.lex_token))
    IN  IF ~HasNode(r1, node_index)
        THEN Out("err", r1, phrs, None, None)
        ELSE Out("ok", set_parent(r1, node_index, new_index), phrs, new_index, None)

\* a single-word resolution that hands back the identifier itself
resolve_returning_identifier(node, node_index, result, phrs) ==
    LET new_index == Len(result.nodes)
        r1 == add_node(result, ParseNode("EmptyApply", node.parent, node_index,
                                         None, node.lex_token))
        r2 == IF r1.root = node_index THEN set_root(r1, new_index) ELSE r1
    IN  IF ~HasNode(r2, node_index)
        THEN Out("err", r2, phrs, None, None)
        ELSE Out("ok", set_parent(r2, node_index, new_index), phrs, node_index, None)

\* lines 353-381: wrap a complete single word in a new EmptyApply node
resolve_single_word_phrase(node, node_index, result, phrs) ==
    LET new_index == Len(result.nodes)
        r1 == add_node(result, ParseNode("EmptyApply", node.parent, node_index,
                                         None, node.lex_token))
        r2 == IF r1.root = node_index THEN set_root(r1, new_index) ELSE r1
    IN  IF ~HasNode(r2, node_index)
        THEN Out("err", r2, phrs, None, None)
        ELSE Out("ok", set_parent(r2, node_index, new_index), phrs, new_index, None)

\* a check_single_word that opens an accumulator for any word not Complete
check_single_word_opening(node, node_index, phrs, part_map, result) ==
    LET phrase_text == node.lex_token.text
        status == get_phrase_status(part_map, phrase_text)
    IN  CASE status = Complete ->
                resolve_single_word_phrase(node, node_index, result, phrs)
          [] OTHER ->
                Out("ok", result, Append(phrs, PhraseInfoNew(phrase_text)), None, None)

\* a check_single_word that wraps a word that only starts a phrase
check_single_word_wrapping(node, node_index, phrs, part_map, result) ==
    LET phrase_text == node.lex_token.text
        status == get_phrase_status(part_map, phrase_text)
    IN  CASE status \in {Incomplete, Complete} ->
                resolve_single_word_phrase(node, node_index, result, phrs)
          [] OTHER -> Out("ok", result, phrs, node_index, None)

\* lines 154-169 and, word for word, 178-193: the identifier on its own
check_single_word(node, node_index, phrs, part_map, result) ==
    LET phrase_text == node.lex_token.text
        status == get_phrase_status(part_map, phrase_text)
    IN  CASE status = Incomplete ->
                Out("ok", result, Append(phrs, PhraseInfoNew(phrase_text)), None, None)
          [] status = Complete ->
                resolve_single_word_phrase(node, node_index, result, phrs)
          [] OTHER -> Out("ok", result, phrs, node_index, None)

\* lines 217-244: close with no argument
close_no_argument(node, node_index, phrs, result) ==
    LET new_index == Len(result.nodes)
        p == node.parent
    IN  IF ~HasNode(result, p) THEN Out("err", result, phrs, None, None)
        ELSE LET r1 == set_right(result, p, new_index)
                 r2 == add_node(r1, ParseNode("EmptyApply", p, node_index, None,
                                              node.lex_token))
             IN  IF ~HasNode(r2, node_index)
                 THEN Out("err", r2, phrs, None, None)
                 ELSE Out("ok", set_parent(r2, node_index, new_index), Pop(phrs),
                          new_index, None)

\* lines 245-266: close with one argument
close_one_argument(node, info, phrs, result) ==
    LET p == node.parent
    IN  IF ~HasNode(result, p) THEN Out("err", result, phrs, None, None)
        ELSE LET r1 == set_definition(result, p, "ApplyTo")
                 new_left == info.arguments[1]
                 r2 == set_left(r1, p, new_left)
             IN  IF ~HasNode(r2, new_left)
                 THEN Out("err", r2, phrs, None, None)
                 ELSE Out("ok", set_parent(r2, new_left, p), Pop(phrs), p, None)

\* lines 267-276: close with several arguments, up to the list descent
close_many_arguments(node, phrs, result) ==
    LET p == node.parent
    IN  IF ~HasNode(result, p) THEN Out("err", result, phrs, None, None)
        ELSE LET r1 == set_definition(result, p, "ApplyTo")
             IN  Out("walk", r1, phrs, p, get_node(r1, p).left)

\* lines 200-329: end of a multi-word phrase
close_phrase(node, node_index, info, new_phrase_text, phrs, result) ==
    IF ~HasNode(result, node_index) THEN Out("err", result, phrs, None, None)
    ELSE LET old == get_node(result, node_index).lex_token
             r0 == set_lex_token(result, node_index,
                                 LexerToken(new_phrase_text, old.line, old.column))
             n == Len(info.arguments)
         IN  CASE n = 0 -> close_no_argument(node, node_index, phrs, r0)
               [] n = 1 -> close_one_argument(node, info, phrs, r0)
               [] OTHER -> close_many_arguments(node, phrs, r0)

\* a check that drops the open accumulator when the word does not continue it
candidate_argument_abandoning(node, node_index, phrs, part_map, result, is_left_of_parent) ==
    CASE node.definition = "Identifier" ->
            IF Len(phrs) = 0
            THEN check_single_word(node, node_index, phrs, part_map, result)
            ELSE LET info == Last(phrs)
                     phrase_text == node.lex_token.text
                     new_phrase_text == full_text_with(info, phrase_text)
                     status == get_phrase_status(part_map, new_phrase_text)
                 IN  CASE status = NotAPhrase ->
                            check_single_word(node, node_index, Pop(phrs), part_map,
                                              result)
                       [] status = Incomplete ->
                            Out("ok", result, SetLast(phrs, add_part(info, phrase_text)),
                                None, None)
                       [] OTHER ->
                            close_phrase(node, node_index, info, new_phrase_text,
                                         phrs, result)
      [] node.definition = "List" /\ is_left_of_parent ->
            Out("ok", result, phrs, None, None)
      [] OTHER -> Out("ok", result, phrs, node_index, None)

\* lines 144-337: the candidate argument of a node
candidate_argument(node, node_index, phrs, part_map, result, is_left_of_parent) ==
    CASE node.definition = "Identifier" ->
            IF Len(phrs) = 0
            THEN check_single_word(node, node_index, phrs, part_map, result)
            ELSE LET info == Last(phrs)
                     phrase_text == node.lex_token.text
                     new_phrase_text == full_text_with(info, phrase_text)
                     status == get_phrase_status(part_map, new_phrase_text)
                 IN  CASE status = NotAPhrase ->
                            check_single_word(node, node_index, phrs, part_map, result)
                       [] status = Incomplete ->
                            Out("ok", result, SetLast(phrs, add_part(info, phrase_text)),
                                None, None)
                       [] OTHER ->
                            close_phrase(node, node_index, info, new_phrase_text,
                                         phrs, result)
      [] node.definition = "List" /\ is_left_of_parent ->
            Out("ok", result, phrs, None, None)
      [] OTHER -> Out("ok", result, phrs, node_index, None)

\* a recording that goes to the oldest open accumulator
record_argument_oldest(phrs, arg) ==
    IF arg = None \/ Len(phrs) = 0 THEN phrs
    ELSE [phrs EXCEPT ![1] = add_argument(phrs[1], arg)]

\* lines 339-348: record the candidate in the open accumulator
record_argument(phrs, arg) ==
    IF arg = None \/ Len(phrs) = 0 THEN phrs
    ELSE SetLast(phrs, add_argument(Last(phrs), arg))

check_node_for_phrase(node, node_index, phrs, part_map, result, is_left_of_parent) ==
    LET o == candidate_argument(node, node_index, phrs, part_map, result,
                                is_left_of_parent)
    IN  IF o.kind = "ok"
        THEN [o EXCEPT !.phrases = record_argument(o.phrases, o.arg)]
        ELSE o

check_node_index_for_phrase(node_index_opt, phrs, part_map, original_result, result, is_left_of_parent) ==
    IF node_index_opt = None THEN Out("ok", result, phrs, None, None)
    ELSE IF ~HasNode(original_result, node_index_opt)
         THEN Out("ok", result, phrs, None, None)
         ELSE check_node_for_phrase(get_node(original_result, node_index_opt),
                                    node_index_opt, phrs, part_map, result,
                                    is_left_of_parent)

\* lines 281-320: one iteration of the list descent, for loop index i
walk_iteration(result, info, i, next_parent) ==
    LET arg_index == info.arguments[i + 1]
    IN  IF ~HasNode(result, arg_index) THEN [kind |-> "err", result |-> result,
                                             next_parent |-> next_parent]
        ELSE LET r1 == set_parent(result, arg_index, next_parent)
             IN  IF ~HasNode(r1, next_parent)
                 THEN [kind |-> "err", result |-> r1, next_parent |-> next_parent]
                 ELSE LET r2 == set_right(r1, next_parent, arg_index)
                          left == get_node(r2, next_parent).left
                      IN  IF i = 1
                          THEN LET first == info.arguments[1]
                                   r3 == set_left(r2, next_parent, first)
                               IN  IF ~HasNode(r3, first)
                                   THEN [kind |-> "err", result |-> r3,
                                         next_parent |-> next_parent]
                                   ELSE [kind |-> "break",
                                         result |-> set_parent(r3, first, next_parent),
                                         next_parent |-> next_parent]
                          ELSE [kind |-> "next", result |-> r2, next_parent |-> left]

\* ------------------------------------------------------- inputs
\* What a node of the input can be: an identifier with one of the words as
\* its text, a list (the parser's node for a space), or a literal.
Labels == [definition : {"Identifier"}, text : Words]
            \cup {[definition |-> "List", text |-> " "],
                  [definition |-> "Number", text |-> "5"]}

\* The shapes of the well-formed binary trees of n nodes, numbered in order
\* from off as the parser numbers them (a node's index is its token's
\* position), under parent p: the root index and, per node, its links.
RECURSIVE Shapes(_, _, _)
Shapes(n, off, p) ==
    IF n = 0 THEN {[root |-> None, links |-> <<>>]}
    ELSE UNION {
           {[root |-> off + l,
             links |-> L.links
                       \o <<[left |-> L.root, right |-> R.root, parent |-> p]>>
                       \o R.links] :
              L \in Shapes(l, off, off + l),
              R \in Shapes(n - 1 - l, off + l + 1, off + l)} :
           l \in 0 .. n - 1}

Labelled(shape, lab) ==
    [nodes |-> [i \in 1 .. Len(shape.links) |->
                  ParseNode(lab[i].definition, shape.links[i].parent,
                            shape.links[i].left, shape.links[i].right,
                            LexerToken(lab[i].text, 0, i - 1))],
     root |-> shape.root]

WellFormedTrees ==
    UNION {{Labelled(sh, lab) : sh \in Shapes(n, 0, None),
                                lab \in [1 .. n -> Labels]} : n \in 1 .. MaxNodes}

\* The parser's tree of a space-separated token sequence: token j at index
\* 2(j-1), the list joining the first j+1 tokens at index 2j-1, nested left.
ChainLinks(k) ==
    [i \in 1 .. 2 * k - 1 |->
       LET x == i - 1
       IN  IF x % 2 = 0
           THEN [left |-> None, right |-> None,
                 parent |-> IF k = 1 THEN None ELSE IF x = 0 THEN 1 ELSE x - 1]
           ELSE [left |-> IF x = 1 THEN 0 ELSE x - 2, right |-> x + 1,
                 parent |-> IF x = 2 * k - 3 THEN None ELSE x + 2]]

ListLabel == [definition |-> "List", text |-> " "]
Leaves == Labels \ {ListLabel}

ChainTree(tokens) ==
    LET k == Len(tokens)
    IN  Labelled([root |-> IF k = 1 THEN 0 ELSE 2 * k - 3, links |-> ChainLinks(k)],
                 [i \in 1 .. 2 * k - 1 |->
                    IF i % 2 = 1 THEN tokens[(i + 1) \div 2] ELSE ListLabel])

ChainTreesOver(leaves, m) ==
    UNION {{ChainTree(tokens) : tokens \in [1 .. k -> leaves]} : k \in 1 .. m}

ChainTreesUpTo(m) == ChainTreesOver(Leaves, m)

ChainTrees == ChainTreesUpTo(MaxTokens)

\* The trees of nested lists over leaf tokens, of every nesting: the shapes
\* in which a node has two children or none, numbered in order.
RECURSIVE FullShapes(_, _, _)
FullShapes(leaves, off, p) ==
    IF leaves = 1
    THEN {[root |-> off, links |-> <<[left |-> None, right |-> None, parent |-> p]>>]}
    ELSE UNION {
           {[root |-> off + 2 * l - 1,
             links |-> L.links
                       \o <<[left |-> L.root, right |-> R.root, parent |-> p]>>
                       \o R.links] :
              L \in FullShapes(l, off, off + 2 * l - 1),
              R \in FullShapes(leaves - l, off + 2 * l, off + 2 * l - 1)} :
           l \in 1 .. leaves - 1}

ListTrees ==
    UNION {
      UNION {
        LET at == {i \in 1 .. Len(sh.links) : sh.links[i].left = None}
        IN  {Labelled(sh, [i \in 1 .. Len(sh.links) |->
                             IF i \in at THEN f[i] ELSE ListLabel]) :
               f \in [at -> Leaves]} :
        sh \in FullShapes(k, 0, None)} :
      k \in 1 .. MaxLeaves}

\* The malformed arenas: a token sequence's tree with one index (the root, or
\* a node's left, right or parent) replaced by another value, which may be
\* the first index past the arena's end.
Broken(t) ==
    LET n == Len(t.nodes)
    IN  {[t EXCEPT !.root = v] : v \in (0 .. n) \ {t.root}}
        \cup UNION {
               {[t EXCEPT !.nodes[i].left = v] :
                   v \in (None .. n) \ {t.nodes[i].left}}
               \cup {[t EXCEPT !.nodes[i].right = v] :
                   v \in (None .. n) \ {t.nodes[i].right}}
               \cup {[t EXCEPT !.nodes[i].parent = v] :
                   v \in (None .. n) \ {t.nodes[i].parent}} :
               i \in 1 .. n}

\* the arenas are built over one word and the literal
ArenaLeaves == {[definition |-> "Identifier", text |-> "a"],
                [definition |-> "Number", text |-> "5"]}

BrokenTrees == UNION {Broken(t) : t \in ChainTreesOver(ArenaLeaves, MaxBroken)}

\* The registries: the phrase maps that add_phrase builds from a set of
\* phrases none of which is a prefix of another; each phrase is Complete
\* and each of its proper prefixes Incomplete.
Phrases ==
    {<<x>> : x \in Words} \cup {<<x, y>> : x \in Words, y \in Words}
        \cup ThreeWordPhrases

Prefixes(p) == {SubSeq(p, 1, j) : j \in 1 .. Len(p) - 1}

PhraseSets ==
    {S \in SUBSET Phrases : \A p \in S, q \in S : p \notin Prefixes(q)}

PartMapOf(S) ==
    LET whole == {Join(p) : p \in S}
        begun == {Join(q) : q \in UNION {Prefixes(p) : p \in S}}
    IN  [t \in whole \cup begun |-> IF t \in whole THEN Complete ELSE Incomplete]

PartMaps == {PartMapOf(S) : S \in PhraseSets}

\* ------------------------------------------------------- reduce_phrases
VARIABLES parse_result, context, new_result, phrases, process_stack,
          parent_stack, current_index, walk, pc, iters,
          phrase, add_result, calls

vars == <<parse_result, context, new_result, phrases, process_stack,
          parent_stack, current_index, walk, pc, iters,
          phrase, add_result, calls>>

\* no call of add_phrase is made while the reducer holds the registry
RegistryIdle == UNCHANGED <<phrase, add_result, calls>>

NoWalk == [i |-> 0, next_parent |-> None, node_parent |-> None, back |-> "none"]
NoIters == [discover |-> 0, replay |-> 0, walk |-> 0]

TypeOK ==
    /\ pc \in {"start", "single", "discover", "left", "right", "walk", "Ok", "Err",
              "idle"}
    /\ \A k \in DOMAIN iters : iters[k] \in 0 .. MaxIters

InitWith(trees) ==
    /\ parse_result \in trees
    /\ context \in PartMaps
    /\ new_result = parse_result
    /\ phrases = <<>>
    /\ process_stack = <<>>
    /\ parent_stack = <<>>
    /\ current_index = None
    /\ walk = NoWalk
    /\ pc = "start"
    /\ iters = NoIters
    /\ phrase = <<>>
    /\ add_result = "none"
    /\ calls = 0

Init == InitWith(WellFormedTrees \cup ChainTrees)
InitTree == InitWith(ListTrees)
InitArena == InitWith(BrokenTrees \cup ChainTreesOver(ArenaLeaves, MaxTokens))

\* a call that writes its working copy back into its input
InputClobbered == parse_result' = new_result' /\ context' = context

\* the input is borrowed immutably (lines 34-37)
InputBorrowed == UNCHANGED <<parse_result, context>>

\* lines 38-58: clone the input, then the one-node case or the two stacks
Start ==
    /\ pc = "start"
    /\ new_result' = parse_result
    /\ phrases' = <<>>
    /\ IF Len(parse_result.nodes) = 1
       THEN pc' = "single" /\ process_stack' = <<>>
       ELSE pc' = "discover" /\ process_stack' = <<parse_result.root>>
    /\ parent_stack' = <<>>
    /\ InputBorrowed
    /\ RegistryIdle
    /\ UNCHANGED <<current_index, walk, iters>>

\* what follows a finished check: the next check, or the return
AfterCheck(o, back) ==
    /\ new_result' = o.result
    /\ phrases' = o.phrases
    /\ CASE o.kind = "err" -> pc' = "Err" /\ walk' = NoWalk
         [] o.kind = "walk" ->
               /\ pc' = "walk"
               /\ walk' = [i |-> Len(Last(o.phrases).arguments) - 1,
                           next_parent |-> o.next_parent,
                           node_parent |-> o.arg, back |-> back]
         [] OTHER -> pc' = back /\ walk' = NoWalk

\* lines 44-55: a single node is checked once, directly
Single ==
    /\ pc = "single"
    /\ AfterCheck(check_node_index_for_phrase(parse_result.root, phrases, context,
                                              parse_result, new_result, FALSE),
                  "Ok")
    /\ InputBorrowed
    /\ RegistryIdle
    /\ UNCHANGED <<process_stack, parent_stack, current_index, iters>>

\* the loops are over when both stacks are empty
LoopPc(work, parents) ==
    IF work # <<>> THEN "discover" ELSE IF parents # <<>> THEN "left" ELSE "Ok"

\* lines 60-83: one iteration of the discovery loop
Discover ==
    /\ pc = "discover"
    /\ iters.discover < MaxIters
    /\ iters' = [iters EXCEPT !.discover = @ + 1]
    /\ LET index == Last(process_stack)
           rest == Pop(process_stack)
       IN  IF ~HasNode(parse_result, index)
           THEN /\ pc' = "Err"
                /\ process_stack' = rest
                /\ UNCHANGED parent_stack
           ELSE LET node == get_node(parse_result, index)
                    work == IF node.left = None /\ node.right = None THEN rest
                            ELSE IF node.left # None /\ node.right # None
                                 THEN rest \o <<node.left, node.right>>
                            ELSE IF node.left # None THEN Append(rest, node.left)
                            ELSE Append(rest, node.right)
                    parents == IF node.left = None /\ node.right = None
                               THEN parent_stack
                               ELSE Append(parent_stack, index)
                IN  /\ process_stack' = work
                    /\ parent_stack' = parents
                    /\ pc' = LoopPc(work, parents)
    /\ InputBorrowed
    /\ RegistryIdle
    /\ UNCHANGED <<new_result, phrases, current_index, walk>>

\* lines 85-97: pop the next parent and check its left child
ReplayLeft ==
    /\ pc = "left"
    /\ iters.replay < MaxIters
    /\ iters' = [iters EXCEPT !.replay = @ + 1]
    /\ LET index == Last(parent_stack)
       IN  /\ parent_stack' = Pop(parent_stack)
           /\ current_index' = index
           /\ IF ~HasNode(parse_result, index)
              THEN pc' = "Err" /\ UNCHANGED <<new_result, phrases, walk>>
              ELSE AfterCheck(check_node_index_for_phrase(
                                  get_node(parse_result, index).left, phrases,
                                  context, parse_result, new_result, TRUE),
                              "right")
    /\ InputBorrowed
    /\ RegistryIdle
    /\ UNCHANGED process_stack

\* lines 99-107: check the right child of the same parent
ReplayRight ==
    /\ pc = "right"
    /\ AfterCheck(check_node_index_for_phrase(
                      get_node(parse_result, current_index).right, phrases,
                      context, parse_result, new_result, FALSE),
                  LoopPc(<<>>, parent_stack))
    /\ InputBorrowed
    /\ RegistryIdle
    /\ UNCHANGED <<process_stack, parent_stack, current_index, iters>>

\* lines 281-329 and 339-348: one iteration of the list descent; after the
\* last one the accumulator is popped and the apply node is the candidate
WalkStep ==
    /\ pc = "walk"
    /\ iters.walk < MaxIters
    /\ iters' = [iters EXCEPT !.walk = @ + 1]
    /\ LET w == walk_iteration(new_result, Last(phrases), walk.i, walk.next_parent)
       IN  /\ new_result' = w.result
           /\ CASE w.kind = "err" ->
                     pc' = "Err" /\ walk' = NoWalk /\ UNCHANGED phrases
                [] w.kind = "break" ->
                     /\ pc' = walk.back
                     /\ walk' = NoWalk
                     /\ phrases' = record_argument(Pop(phrases), walk.node_parent)
                [] OTHER ->
                     /\ pc' = "walk"
                     /\ walk' = [walk EXCEPT !.i = @ - 1,
                                             !.next_parent = w.next_parent]
                     /\ UNCHANGED phrases
    /\ InputBorrowed
    /\ RegistryIdle
    /\ UNCHANGED <<process_stack, parent_stack, current_index>>

Next == Start \/ Single \/ Discover \/ ReplayLeft \/ ReplayRight \/ WalkStep

Spec == Init /\ [][Next]_vars
SpecTree == InitTree /\ [][Next]_vars
SpecArena == InitArena /\ [][Next]_vars

\* ------------------------------------------------------- the registry
\* The texts handed to add_phrase: every string of up to MaxText characters
\* over a letter and the separator.
PhraseChars == {"a", "_"}
PhraseTexts == UNION {[1 .. n -> PhraseChars] : n \in 0 .. MaxText}

\* A registry on its own: new() (context.rs lines 25-27), no reducer running.
InitRegistry ==
    /\ context = EmptyMap
    /\ phrase = <<>>
    /\ add_result = "none"
    /\ calls = 0
    /\ pc = "idle"
    /\ parse_result = [nodes |-> <<>>, root |-> 0]
    /\ new_result = parse_result
    /\ phrases = <<>>
    /\ process_stack = <<>>
    /\ parent_stack = <<>>
    /\ current_index = None
    /\ walk = NoWalk
    /\ iters = NoIters

ReducerIdle ==
    UNCHANGED <<parse_result, new_result, phrases, process_stack, parent_stack,
                current_index, walk, pc, iters>>

\* context.rs lines 33-80: one call of add_phrase
AddPhrase ==
    /\ pc = "idle"
    /\ calls < MaxCalls
    /\ calls' = calls + 1
    /\ \E phrase_text \in PhraseTexts :
          LET r == add_phrase(context, phrase_text)
          IN  /\ phrase' = phrase_text
              /\ context' = r.part_map
              /\ add_result' = r.result
    /\ ReducerIdle

NextRegistry == AddPhrase

SpecRegistry == InitRegistry /\ [][NextRegistry]_vars

\* ------------------------------------------------------- vocabulary of the claims
Ident(w) == [definition |-> "Identifier", text |-> w]
NumberLabel == [definition |-> "Number", text |-> "5"]
Status(s) == get_phrase_status(context, s)
Result(i) == get_node(new_result, i)
Input(i) == get_node(parse_result, i)

\* the index the check about to run is given, and whether it names a node
CheckedIndex ==
    CASE pc = "single" -> parse_result.root
      [] pc = "left" -> Input(Last(parent_stack)).left
      [] pc = "right" -> Input(current_index).right
      [] OTHER -> None

Checking == HasNode(parse_result, CheckedIndex)

\* the check about to run closes a multi-word phrase
Closing ==
    /\ Checking
    /\ Input(CheckedIndex).definition = "Identifier"
    /\ phrases # <<>>
    /\ Status(full_text_with(Last(phrases), Input(CheckedIndex).lex_token.text))
         = Complete

MergedText == full_text_with(Last(phrases), Input(CheckedIndex).lex_token.text)

\* ------------------------------------------------------- C1
\* C1: for the root List of two Identifier leaves w1, w2 with w1 Incomplete
\* and w1_w2 Complete, the returned tree's root is an EmptyApply node with
\* left = the identifier carrying w1_w2, no right, no parent, and that
\* identifier's parent is the root.
C1_TwoWordInput ==
    \E w1 \in Words, w2 \in Words :
       /\ parse_result = ChainTree(<<Ident(w1), Ident(w2)>>)
       /\ Status(w1) = Incomplete
       /\ Status(w1 \o "_" \o w2) = Complete

C1_MergedUnderEmptyApplyRoot ==
    (pc = "Ok" /\ C1_TwoWordInput) =>
       LET root == Result(new_result.root)
       IN  /\ root.definition = "EmptyApply"
           /\ root.right = None
           /\ root.parent = None
           /\ HasNode(new_result, root.left)
           /\ Result(root.left).definition = "Identifier"
           /\ Result(root.left).lex_token.text
                = Input(0).lex_token.text \o "_" \o Input(2).lex_token.text
           /\ Result(root.left).parent = new_result.root

\* ------------------------------------------------------- C2
\* C2: whenever a multi-word phrase closes with exactly one accumulated
\* argument a, the closing identifier's parent P is afterwards ApplyTo with
\* left = a, a's parent = P, and right still the closing identifier, which
\* carries the merged text; for "w1 x w2" P is the root.
C2_OneArgumentClose ==
    [][(Closing /\ Len(Last(phrases).arguments) = 1 /\ pc' # "Err") =>
          LET c == CheckedIndex
              P == Input(c).parent
              a == Last(phrases).arguments[1]
          IN  /\ get_node(new_result', P).definition = "ApplyTo"
              /\ get_node(new_result', P).left = a
              /\ get_node(new_result', a).parent = P
              /\ get_node(new_result', P).right = c
              /\ get_node(new_result', c).lex_token.text = MergedText
              /\ (\E w1 \in Words, w2 \in Words, x \in Leaves :
                     parse_result = ChainTree(<<Ident(w1), x, Ident(w2)>>))
                   => P = new_result'.root]_vars

\* ------------------------------------------------------- C3
\* the input as a token sequence, when it is the tree of one
IsChain == parse_result \in ChainTrees
TokenCount == (Len(parse_result.nodes) + 1) \div 2
TokenIndices == [j \in 1 .. TokenCount |-> 2 * (j - 1)]
IsWord(i) == Input(i).definition = "Identifier"
IsLiteral(i) == Input(i).definition = "Number"
WordIndices == SelectSeq(TokenIndices, IsWord)
LiteralIndices == SelectSeq(TokenIndices, IsLiteral)
WordTexts == [j \in 1 .. Len(WordIndices) |-> Input(WordIndices[j]).lex_token.text]

\* w1 a1 .. an w2: a phrase from the first token to the last, every word
\* between continuing it, every other token a literal
C3_PhraseWithArguments ==
    /\ IsChain
    /\ TokenCount >= 4
    /\ IsWord(0)
    /\ IsWord(2 * (TokenCount - 1))
    /\ Len(LiteralIndices) >= 2
    /\ \A j \in 1 .. Len(WordTexts) - 1 :
          Status(Join(SubSeq(WordTexts, 1, j))) = Incomplete
    /\ Status(Join(WordTexts)) = Complete

RECURSIVE C3_ListChain(_, _, _)
C3_ListChain(m, args, j) ==
    /\ HasNode(new_result, m)
    /\ Result(m).definition = "List"
    /\ Result(m).right = args[j]
    /\ Result(args[j]).parent = m
    /\ IF j = 2
       THEN Result(m).left = args[1] /\ Result(args[1]).parent = m
       ELSE C3_ListChain(Result(m).left, args, j - 1)

\* C3: for the left-nested List tree of w1 a1 .. an w2, n >= 2, the returned
\* root is ApplyTo, its right the identifier carrying the merged text, its
\* left a chain of n-1 List nodes linked through left whose leaves are
\* a1 .. an in source order, each ai's parent naming the List that holds it.
C3_ArgumentsFormListChain ==
    (pc \in {"Ok", "Err"} /\ C3_PhraseWithArguments) =>
       /\ pc = "Ok"
       /\ LET root == Result(new_result.root)
              last == 2 * (TokenCount - 1)
          IN  /\ new_result.root = Input(last).parent
              /\ root.definition = "ApplyTo"
              /\ root.right = last
              /\ Result(last).definition = "Identifier"
              /\ Result(last).lex_token.text = Join(WordTexts)
              /\ C3_ListChain(root.left, LiteralIndices, Len(LiteralIndices))

C3_Witness ==
    pc = "Ok" /\ C3_PhraseWithArguments /\ Len(WordTexts) = 3

C3_WitnessThreeArguments ==
    pc = "Ok" /\ C3_PhraseWithArguments /\ Len(LiteralIndices) = 3

\* ------------------------------------------------------- C4
C4_SingleCompleteWord ==
    /\ Len(parse_result.nodes) = 1
    /\ parse_result.root = 0
    /\ Input(0) = ParseNode("Identifier", None, None, None, Input(0).lex_token)
    /\ Status(Input(0).lex_token.text) = Complete

\* C4: a one-node input that is a Complete identifier returns two nodes: a
\* new EmptyApply at index 1 that is the root, with left = the identifier and
\* neither right nor parent, the identifier unchanged but for parent = 1.
C4_SingleWordWrapped ==
    (pc \in {"Ok", "Err"} /\ C4_SingleCompleteWord) =>
       /\ pc = "Ok"
       /\ Len(new_result.nodes) = 2
       /\ new_result.root = 1
       /\ Result(1).definition = "EmptyApply"
       /\ Result(1).left = 0
       /\ Result(1).right = None
       /\ Result(1).parent = None
       /\ Result(0) = [Input(0) EXCEPT !.parent = 1]

C4_Witness == pc = "Ok" /\ C4_SingleCompleteWord

\* ------------------------------------------------------- C5
\* the check about to run resolves a single-word phrase under an open
\* accumulator
C5_ResolvingSingleWordInside ==
    /\ Checking
    /\ Input(CheckedIndex).definition = "Identifier"
    /\ phrases # <<>>
    /\ Status(MergedText) = NotAPhrase
    /\ Status(Input(CheckedIndex).lex_token.text) = Complete

\* the check about to run closes a multi-word phrase under an enclosing
\* accumulator
C5_ClosingInside == Closing /\ Len(phrases) >= 2

C5_Recorded(enclosing, rest, operand) ==
    /\ get_node(new_result', operand).definition \in {"EmptyApply", "ApplyTo"}
    /\ phrases' = Append(rest, add_argument(enclosing, operand))

AllWords == Len(WordIndices) = TokenCount
Text(i) == Input(i).lex_token.text

C5_SingleWordCase ==
    /\ IsChain /\ TokenCount = 3 /\ AllWords
    /\ Status(Text(0)) = Incomplete
    /\ Status(Text(0) \o "_" \o Text(2)) = NotAPhrase
    /\ Status(Text(2)) = Complete
    /\ Status(Text(0) \o "_" \o Text(4)) = Complete

C5_TwoWordCase ==
    /\ IsChain /\ TokenCount = 4 /\ AllWords
    /\ Status(Text(0)) = Incomplete
    /\ Status(Text(0) \o "_" \o Text(2)) = NotAPhrase
    /\ Status(Text(2)) = Incomplete
    /\ Status(Text(2) \o "_" \o Text(4)) = Complete
    /\ Status(Text(0) \o "_" \o Text(6)) = Complete

\* C5: a phrase that resolves under an open accumulator hands that
\* accumulator, as one operand, the resolved identifier's new parent (the
\* appended EmptyApply or the ApplyTo node); so "w1 s w2" and "w1 s1 s2 w2"
\* return an ApplyTo root with left = an EmptyApply over the inner phrase
\* identifier and right = the identifier carrying w1_w2.
C5_ResolvedPhraseIsOneOperand ==
    [][/\ (C5_ResolvingSingleWordInside /\ pc' # "Err") =>
             C5_Recorded(Last(phrases), Pop(phrases),
                         get_node(new_result', CheckedIndex).parent)
       /\ (C5_ClosingInside /\ pc' \notin {"Err", "walk"}) =>
             C5_Recorded(Last(Pop(phrases)), Pop(Pop(phrases)),
                         get_node(new_result', CheckedIndex).parent)
       /\ (pc = "walk" /\ pc' \notin {"Err", "walk"} /\ Len(phrases) >= 2) =>
             C5_Recorded(Last(Pop(phrases)), Pop(Pop(phrases)), walk.node_parent)
       /\ (pc' = "Ok" /\ C5_SingleWordCase) =>
             LET r == new_result'
                 root == get_node(r, r.root)
             IN  /\ root.definition = "ApplyTo"
                 /\ root.right = 4
                 /\ get_node(r, 4).lex_token.text
                      = Input(0).lex_token.text \o "_" \o Input(4).lex_token.text
                 /\ HasNode(r, root.left)
                 /\ get_node(r, root.left).definition = "EmptyApply"
                 /\ get_node(r, root.left).left = 2
       /\ (pc' = "Ok" /\ C5_TwoWordCase) =>
             LET r == new_result'
                 root == get_node(r, r.root)
             IN  /\ root.definition = "ApplyTo"
                 /\ root.right = 6
                 /\ get_node(r, 6).lex_token.text
                      = Input(0).lex_token.text \o "_" \o Input(6).lex_token.text
                 /\ HasNode(r, root.left)
                 /\ get_node(r, root.left).definition = "EmptyApply"
                 /\ get_node(r, root.left).left = 4
                 /\ get_node(r, 4).lex_token.text
                      = Input(2).lex_token.text \o "_" \o Input(4).lex_token.text
      ]_vars

C5_Witness == pc = "Ok" /\ C5_TwoWordCase
C5_WitnessSingleWord == pc = "Ok" /\ C5_SingleWordCase

\* ------------------------------------------------------- C6
Children(t, m) ==
    {get_node(t, m).left, get_node(t, m).right} \ {None}

RECURSIVE ReachFrom(_, _, _)
ReachFrom(t, frontier, seen) ==
    IF frontier = {} THEN seen
    ELSE LET next == {c \in UNION {Children(t, m) : m \in frontier} :
                         HasNode(t, c) /\ c \notin seen}
         IN  ReachFrom(t, next, seen \cup next)

\* the nodes reachable from the root through left and right
Reach(t) == IF HasNode(t, t.root) THEN ReachFrom(t, {t.root}, {t.root}) ELSE {}

\* the places a node is referenced from, among the nodes of `from`
Referrers(t, from, c) ==
    {<<m, "left">> : m \in {x \in from : get_node(t, x).left = c}}
        \cup {<<m, "right">> : m \in {x \in from : get_node(t, x).right = c}}

\* well formed on the part reachable from the root: the root has no parent
\* and no referrer, every other reachable node has exactly one referrer and
\* its parent field names it, and every child index is a node
WellFormedFromRoot(t) ==
    /\ HasNode(t, t.root)
    /\ get_node(t, t.root).parent = None
    /\ Referrers(t, Reach(t), t.root) = {}
    /\ \A m \in Reach(t) :
          /\ \A c \in Children(t, m) : HasNode(t, c)
          /\ m # t.root =>
                /\ Cardinality(Referrers(t, Reach(t), m)) = 1
                /\ \A r \in Referrers(t, Reach(t), m) : get_node(t, m).parent = r[1]

\* a well-formed input: well formed from the root, and every node reachable
WellFormed(t) ==
    /\ WellFormedFromRoot(t)
    /\ Reach(t) = 0 .. Len(t.nodes) - 1

\* C6: for every well-formed input tree the returned tree is well formed on
\* its reachable part: parent fields name the referencing node, the root has
\* no parent, and no node is reachable by two paths.
C6_ResultWellFormed ==
    (pc = "Ok" /\ WellFormed(parse_result)) => WellFormedFromRoot(new_result)

C8_AbsentLookup ==
    \/ pc = "single" /\ ~HasNode(parse_result, parse_result.root)
    \/ pc = "discover" /\ ~HasNode(parse_result, Last(process_stack))
    \/ pc = "left" /\ ~HasNode(parse_result, Last(parent_stack))
    \/ pc \in {"left", "right"} /\ CheckedIndex # None /\ ~Checking
    \/ Closing /\ Input(CheckedIndex).parent # None
               /\ ~HasNode(new_result, Input(CheckedIndex).parent)
    \/ pc = "walk" /\ walk.next_parent # None
                   /\ ~HasNode(new_result, walk.next_parent)

\* C8: whenever a node index absent from the arena is looked up (the root,
\* also of a one-node arena; a child during discovery or the per-node check;
\* a parent or an argument during a rewrite), the call returns Err.
C8_AbsentIndexIsError ==
    [][C8_AbsentLookup => pc' = "Err"]_vars

\* ------------------------------------------------------- C9
Returned == pc \in {"Ok", "Err"}

LoopsWithinNodes ==
    /\ iters.discover <= Len(parse_result.nodes)
    /\ iters.replay <= Len(parse_result.nodes)
    /\ iters.walk <= Len(parse_result.nodes)

\* C9 as stated: for every finite arena and root index the three loops
\* finish within a number of iterations bounded by the number of nodes.
C9_EveryArenaTerminates ==
    /\ LoopsWithinNodes
    /\ Returned \/ ENABLED Next

\* C9 as amended: for every well-formed input tree the call returns, each of
\* the three loops having run at most as many iterations as there are nodes.
C9_WellFormedTerminates ==
    \/ /\ LoopsWithinNodes
       /\ Returned \/ ENABLED Next
    \/ ~WellFormed(parse_result)

C9_Witness ==
    /\ pc = "Ok"
    /\ WellFormed(parse_result)
    /\ iters.discover = Len(parse_result.nodes)
    /\ iters.walk > 1

Called == calls' = calls + 1

\* a text of non-empty segments: no leading, trailing or doubled separator
IsSep(text, i) == i >= 1 /\ i <= Len(text) /\ text[i] = "_"
AllSegmentsNonEmpty(text) ==
    /\ text # <<>>
    /\ ~IsSep(text, 1) /\ ~IsSep(text, Len(text))
    /\ \A i \in 1 .. Len(text) - 1 : ~(IsSep(text, i) /\ IsSep(text, i + 1))

\* the number of segments of such a text, the ends of its proper prefixes
\* s1_.._sj (j < k), and the string of its first i characters
SegmentCount(text) == Cardinality({i \in 1 .. Len(text) : IsSep(text, i)}) + 1
PrefixEnds(text) == {i \in 1 .. Len(text) - 1 : IsSep(text, i + 1)}
Upto(text, i) == Concat(SubSeq(text, 1, i))
Whole(text) == Concat(text)
StatusIn(part_map, s) == get_phrase_status(part_map, s)

\* ------------------------------------------------------- C11
\* C11: add_phrase of a phrase of k >= 1 non-empty segments on an empty
\* registry returns Ok; afterwards each proper prefix join is Incomplete, the
\* full join is Complete, every other text is NotAPhrase, and phrase_count
\* is k.
C11_RegistersPrefixes ==
    [][(Called /\ context = EmptyMap /\ AllSegmentsNonEmpty(phrase')) =>
         /\ add_result' = Ok
         /\ \A i \in PrefixEnds(phrase') :
               StatusIn(context', Upto(phrase', i)) = Incomplete
         /\ StatusIn(context', Whole(phrase')) = Complete
         /\ DOMAIN context' =
               {Upto(phrase', i) : i \in PrefixEnds(phrase')} \cup {Whole(phrase')}
         /\ phrase_count(context') = SegmentCount(phrase')
      ]_vars

C11_Witness ==
    /\ calls = 1
    /\ phrase = <<"a", "_", "a", "_", "a">>
    /\ add_result = Ok
    /\ phrase_count(context) = 3

\* ------------------------------------------------------- C12
\* C12: in every registry state, add_phrase of a phrase of non-empty
\* segments returns Err(CompleteVersionExists) exactly when a proper prefix
\* join is stored as Complete, Err(IncompleteVersionExists) exactly when no
\* proper prefix is stored as Complete and the full join is stored as
\* Incomplete, and Ok otherwise.
C12_ErrorsExactly ==
    [][(Called /\ AllSegmentsNonEmpty(phrase')) =>
         LET complete_prefix ==
                 \E i \in PrefixEnds(phrase') :
                    StatusIn(context, Upto(phrase', i)) = Complete
             incomplete_whole ==
                 /\ ~complete_prefix
                 /\ StatusIn(context, Whole(phrase')) = Incomplete
         IN  /\ (add_result' = CompleteVersionExists) <=> complete_prefix
             /\ (add_result' = IncompleteVersionExists) <=> incomplete_whole
             /\ (add_result' = Ok) <=> (~complete_prefix /\ ~incomplete_whole)
      ]_vars

\* a then a_a has failed with CompleteVersionExists
C12_Witness ==
    /\ calls = 2
    /\ phrase = <<"a", "_", "a">>
    /\ add_result = CompleteVersionExists
    /\ StatusIn(context, "a") = Complete

\* a_a then a has failed with IncompleteVersionExists
C12_WitnessIncomplete ==
    /\ calls = 2
    /\ phrase = <<"a">>
    /\ add_result = IncompleteVersionExists
    /\ StatusIn(context, "a_a") = Complete

\* ------------------------------------------------------- C13
\* The separators a text keeps when its empty segments are discarded: the
\* first of each run of separators that has a letter before and after it.
KeptChars(text) ==
    {i \in 1 .. Len(text) :
        \/ text[i] # "_"
        \/ /\ \E b \in 1 .. i - 1 : text[b] # "_"
           /\ \E a \in i + 1 .. Len(text) : text[a] # "_"
           /\ text[i - 1] # "_"}

\* the "_"-join of the non-empty segments of a text
Normalised(text) ==
    LET K == KeptChars(text)
        at(j) == CHOOSE i \in K : Cardinality({x \in K : x < i}) = j - 1
    IN  [j \in 1 .. Cardinality(K) |-> text[at(j)]]

SameAsNormalised ==
    LET other == add_phrase(context, Normalised(phrase'))
    IN  add_result' = other.result /\ context' = other.part_map

EndsWithSeparator(text) == IsSep(text, Len(text))

\* C13 as stated: for every text and every registry state add_phrase
\* returns the same result and leaves the same mapping as for the join of
\* the text's non-empty segments.
C13_EmptySegmentsDiscarded == [][Called => SameAsNormalised]_vars

\* C13 as amended: the same, for every text that does not end with a
\* separator: leading and doubled separators have no effect.
C13_LeadingAndDoubledDiscarded ==
    [][(Called /\ ~EndsWithSeparator(phrase')) => SameAsNormalised]_vars

C13_Witness ==
    /\ calls = 1
    /\ phrase = <<"_", "a", "_", "_", "a">>
    /\ add_result = Ok
    /\ DOMAIN context = {"a", "a_a"}
    /\ context["a_a"] = Complete

\* ------------------------------------------------------- C14
\* C14: add_phrase, on an empty registry, of a text that ends with a
\* separator and has non-empty segments s1..sk returns Ok and stores every
\* prefix join, the full join s1_.._sk included, as Incomplete; nothing is
\* stored as Complete and phrase_count is k.
C14_TrailingSeparatorForcesIncomplete ==
    [][(/\ Called /\ context = EmptyMap
        /\ EndsWithSeparator(phrase') /\ Normalised(phrase') # <<>>) =>
         LET joined == Normalised(phrase')
             keys == {Upto(joined, i) : i \in PrefixEnds(joined)}
                        \cup {Whole(joined)}
         IN  /\ add_result' = Ok
             /\ DOMAIN context' = keys
             /\ \A key \in keys : context'[key] = Incomplete
             /\ phrase_count(context') = SegmentCount(joined)
      ]_vars

C14_Witness ==
    /\ calls = 1
    /\ phrase = <<"a", "_", "a", "_">>
    /\ add_result = Ok
    /\ DOMAIN context = {"a", "a_a"}
    /\ context["a_a"] = Incomplete

\* ------------------------------------------------------- C15
\* C15: add_phrase of a text with no non-empty segment (the empty string, or
\* separators only) returns Ok and leaves the mapping, and so phrase_count,
\* as it was, in every registry state.
C15_NoSegmentIsNoOp ==
    [][(Called /\ \A i \in 1 .. Len(phrase') : phrase'[i] = "_") =>
         /\ add_result' = Ok
         /\ context' = context
         /\ phrase_count(context') = phrase_count(context)
      ]_vars

\* "_" handed to a registry that holds a phrase
C15_Witness ==
    /\ calls = 2
    /\ phrase = <<"_">>
    /\ add_result = Ok
    /\ phrase_count(context) = 2

\* ------------------------------------------------------- C16
\* the interior nodes (those with a child) under index i, in left-to-right
\* post-order
RECURSIVE PostOrder(_, _)
PostOrder(t, i) ==
    IF i = None THEN <<>>
    ELSE LET n == get_node(t, i)
         IN  IF n.left = None /\ n.right = None THEN <<>>
             ELSE PostOrder(t, n.left) \o PostOrder(t, n.right) \o <<i>>

InteriorOrder == PostOrder(parse_result, parse_result.root)

\* the step pops the next interior node and checks its left child
ProcessesNext == pc = "left" /\ iters'.replay = iters.replay + 1

\* C16: for a well-formed input of more than one node the interior nodes
\* are processed in left-to-right post-order, each exactly once (the k-th
\* node processed is the k-th of that order, and a call that returns Ok has
\* processed them all), and within one interior node the left child is
\* checked first and the right child of the same node next.
C16_PostOrderLeftFirst ==
    [][Len(parse_result.nodes) > 1 =>
         /\ ProcessesNext =>
               /\ iters'.replay <= Len(InteriorOrder)
               /\ current_index' = InteriorOrder[iters'.replay]
               /\ CheckedIndex = Input(InteriorOrder[iters'.replay]).left
               /\ pc' \in {"right", "walk", "Err"}
               /\ pc' = "walk" => walk'.back = "right"
         /\ pc = "right" =>
               /\ current_index = InteriorOrder[iters.replay]
               /\ CheckedIndex = Input(InteriorOrder[iters.replay]).right
               /\ iters'.replay = iters.replay
         /\ pc' = "Ok" => iters'.replay = Len(InteriorOrder)
      ]_vars

\* a returned call on a tree whose root has interior nodes on both sides
C16_Witness ==
    /\ pc = "Ok"
    /\ Len(InteriorOrder) >= 3
    /\ iters.replay = Len(InteriorOrder)
    /\ PostOrder(parse_result, Input(parse_result.root).left) # <<>>
    /\ PostOrder(parse_result, Input(parse_result.root).right) # <<>>

\* ------------------------------------------------------- C17
\* the check about to run resolves a single-word Complete identifier
ResolvingSingleWord ==
    /\ Checking
    /\ Input(CheckedIndex).definition = "Identifier"
    /\ phrases = <<>> \/ Status(MergedText) = NotAPhrase
    /\ Status(Input(CheckedIndex).lex_token.text) = Complete

\* C17: after a single-word Complete identifier c with parent P resolves,
\* the appended EmptyApply node has left = c and parent = P, c's parent is
\* the new node, and the child slot of P that held c holds the new node;
\* when c was the root, the root is the new node.
C17_ParentSlotRepointed ==
    [][(ResolvingSingleWord /\ pc' # pc) =>
         LET c == CheckedIndex
             P == Input(c).parent
             new == Len(new_result.nodes)
         IN  /\ Len(new_result'.nodes) = new + 1
             /\ get_node(new_result', new).definition = "EmptyApply"
             /\ get_node(new_result', new).left = c
             /\ get_node(new_result', new).parent = P
             /\ get_node(new_result', c).parent = new
             /\ new_result.root = c => new_result'.root = new
             /\ HasNode(new_result, P) =>
                   /\ Result(P).left = c => get_node(new_result', P).left = new
                   /\ Result(P).right = c => get_node(new_result', P).right = new
      ]_vars

\* ------------------------------------------------------- C18
\* the check about to run is of an identifier that does not continue the
\* open accumulator
BreaksChain ==
    /\ Checking
    /\ Input(CheckedIndex).definition = "Identifier"
    /\ phrases # <<>>
    /\ Status(MergedText) = NotAPhrase

\* the accumulator stack after the identifier t about to be checked has been
\* evaluated as a fresh candidate over the accumulators below
FreshOver(below) ==
    LET t == Input(CheckedIndex).lex_token.text
        cand == IF Status(t) = Complete THEN Len(new_result.nodes) ELSE CheckedIndex
    IN  IF Status(t) = Incomplete THEN Append(below, PhraseInfoNew(t))
        ELSE IF below = <<>> THEN below
        ELSE SetLast(below, add_argument(Last(below), cand))

\* C18 as stated: when an identifier t is checked while an accumulator with
\* running text p is open and p_t is NotAPhrase, that accumulator is removed
\* from the stack before t is evaluated as a fresh candidate.
C18_AccumulatorAbandoned ==
    [][(BreaksChain /\ pc' # pc) => phrases' = FreshOver(Pop(phrases))]_vars

\* C18 as amended: the accumulator is not removed; t is evaluated as a fresh
\* candidate with the accumulator still open: a new accumulator is pushed
\* above it when t is Incomplete on its own, and otherwise t's candidate (t
\* itself, or the EmptyApply that wraps it when t is Complete) is appended
\* to the arguments of the accumulator, whose word parts stay as they were.
C18_AccumulatorStaysOpen ==
    [][(BreaksChain /\ pc' # pc) =>
         /\ phrases' = FreshOver(phrases)
         /\ Len(phrases') >= Len(phrases)
         /\ phrases'[Len(phrases)].phrase_parts = Last(phrases).phrase_parts
      ]_vars

\* "a b a" with a_a registered and b no phrase: the accumulator of the first
\* a has outlived b, taken it as its argument and resolved at the second a
C18_Witness ==
    /\ pc = "Ok"
    /\ IsChain /\ TokenCount = 3 /\ AllWords
    /\ Status(Text(0)) = Incomplete
    /\ Status(Text(0) \o "_" \o Text(2)) = NotAPhrase
    /\ Status(Text(2)) = NotAPhrase
    /\ Status(Text(0) \o "_" \o Text(4)) = Complete
    /\ Result(3).definition = "ApplyTo"
    /\ Result(3).left = 2
    /\ Result(4).lex_token.text = Text(0) \o "_" \o Text(4)

\* ------------------------------------------------------- C19
\* The candidate argument of the check about to run, by the rule of the
\* claim: none for a List checked as left child; the node itself for any
\* other node that is no identifier; for an identifier the node itself when
\* its text is no phrase on its own and does not continue the open
\* accumulator, the node's new parent when it resolves a phrase, and none
\* otherwise.
C19_Candidate ==
    LET n == Input(CheckedIndex)
        text == n.lex_token.text
    IN  IF n.definition = "List" /\ pc = "left" THEN None
        ELSE IF n.definition # "Identifier" THEN CheckedIndex
        ELSE IF phrases # <<>> /\ Status(MergedText) = Incomplete THEN None
        ELSE IF Closing
             THEN IF Last(phrases).arguments = <<>> THEN Len(new_result.nodes)
                  ELSE n.parent
        ELSE IF Status(text) = Complete THEN Len(new_result.nodes)
        ELSE IF Status(text) = NotAPhrase THEN CheckedIndex
        ELSE None

\* from the stack before to the stack after, cand has been appended to the
\* arguments of the accumulator on top of the stack after and to no other
C19_AppendedToTop(before, after, cand) ==
    /\ Len(after) <= Len(before)
    /\ \A k \in 1 .. Len(after) - 1 : after[k].arguments = before[k].arguments
    /\ after # <<>> =>
          Last(after).arguments = Append(before[Len(after)].arguments, cand)

\* from the stack before to the stack after no argument has been appended
C19_NothingAppended(before, after) ==
    \A k \in 1 .. Len(after) :
       after[k].arguments = IF k <= Len(before) THEN before[k].arguments ELSE <<>>

\* C19: a List checked as left child is no candidate, every other node that
\* is no identifier is, an identifier only when it is no phrase on its own
\* or resolves a phrase; after the check the candidate's index is appended
\* to the arguments of the accumulator on top of the stack, to no other
\* accumulator, and to none when the stack is empty.
C19_CandidateRule ==
    [][/\ (Checking /\ pc' \notin {pc, "Err", "walk"}) =>
             IF C19_Candidate = None
             THEN C19_NothingAppended(phrases, phrases')
             ELSE C19_AppendedToTop(phrases, phrases', C19_Candidate)
       /\ (Checking /\ pc' = "walk") =>
             /\ C19_Candidate = walk'.node_parent
             /\ C19_NothingAppended(phrases, phrases')
       /\ (pc = "walk" /\ pc' \notin {"walk", "Err"}) =>
             /\ Len(phrases') = Len(phrases) - 1
             /\ C19_AppendedToTop(phrases, phrases', walk.node_parent)
      ]_vars

\* a List checked as right child has been recorded as an argument of the
\* accumulator on top of the stack
C19_Witness ==
    /\ pc = "Ok"
    /\ phrases # <<>>
    /\ \E k \in 1 .. Len(Last(phrases).arguments) :
          LET arg == Last(phrases).arguments[k]
          IN  /\ HasNode(parse_result, arg)
              /\ Input(arg).definition = "List"
              /\ Input(Input(arg).parent).right = arg

\* ------------------------------------------------------- C20
\* the words of a sequence written one after another with "_" between them
RECURSIVE C20_Underscored(_)
C20_Underscored(words) ==
    IF Len(words) = 1 THEN words[1]
    ELSE C20_Underscored(SubSeq(words, 1, Len(words) - 1))
            \o "_" \o words[Len(words)]

\* the step closes a multi-word phrase at the identifier c it checks: the
\* text the accumulator's parts and c's own text make is Complete
C20_ClosingAt(c) ==
    /\ Checking /\ c = CheckedIndex /\ pc' # pc
    /\ Input(c).definition = "Identifier"
    /\ phrases # <<>>
    /\ Status(C20_Underscored(Append(Last(phrases).phrase_parts, Text(c))))
          = Complete

\* C20: when a multi-word phrase closes at identifier node c, c's token text
\* becomes the "_"-join of the accumulator's word parts followed by c's own
\* text, c keeps its line and column, and the token text of every other
\* input node is unchanged; no other step changes the token of an input
\* node.
C20_MergedTokenText ==
    [][\A i \in 0 .. Len(parse_result.nodes) - 1 :
          IF C20_ClosingAt(i)
          THEN /\ get_node(new_result', i).lex_token.text =
                     C20_Underscored(Append(Last(phrases).phrase_parts, Text(i)))
               /\ get_node(new_result', i).lex_token.line = Input(i).lex_token.line
               /\ get_node(new_result', i).lex_token.column =
                     Input(i).lex_token.column
          ELSE get_node(new_result', i).lex_token = Result(i).lex_token
      ]_vars

\* a three-word phrase has closed at its last word, with arguments between
C20_Witness ==
    /\ pc = "Ok"
    /\ \E i \in 0 .. Len(parse_result.nodes) - 1 :
          /\ Result(i).lex_token.text = "a_a_b"
          /\ Text(i) = "b"
          /\ Result(i).lex_token.column = Input(i).lex_token.column
    /\ Result(0).lex_token.text = "a"

\* ------------------------------------------------------- C21
\* C21: for every well-formed input tree, of any shape and any mix of
\* identifier, list and literal nodes, and every registry, the call does not
\* return Err.
C21_WellFormedReturnsOk == pc = "Err" => ~WellFormed(parse_result)

\* ------------------------------------------------------- C22
\* C22: add_phrase never changes or removes an entry: every key stored
\* before the call is stored after it with the same status, whether the call
\* returns Ok or Err, so phrase_count never decreases.
C22_EntriesKept ==
    [][Called =>
         /\ \A key \in DOMAIN context :
               key \in DOMAIN context' /\ context'[key] = context[key]
         /\ phrase_count(context') >= phrase_count(context)
      ]_vars

\* a_a, then a_aa which shares the prefix a: a is still Incomplete
C22_Witness ==
    /\ calls = 2
    /\ phrase = <<"a", "_", "a", "a">>
    /\ add_result = Ok
    /\ DOMAIN context = {"a", "a_a", "a_aa"}
    /\ context["a"] = Incomplete
    /\ context["a_a"] = Complete

\* ------------------------------------------------------- C23
\* the texts of non-empty segments, which are the candidates for a key
KeyTexts == {text \in PhraseTexts : AllSegmentsNonEmpty(text)}

\* C23: after any sequence of add_phrase calls on an initially empty
\* registry every stored key is a non-empty "_"-join of non-empty segments,
\* every proper prefix join of a stored key is stored as Incomplete, and so
\* no key stored as Complete is a proper prefix of another stored key.
C23_PrefixesStoredIncomplete ==
    \A key \in DOMAIN context :
       \E text \in KeyTexts :
          /\ Whole(text) = key
          /\ \A i \in PrefixEnds(text) :
                /\ Upto(text, i) \in DOMAIN context
                /\ context[Upto(text, i)] = Incomplete

\* a_a_a stored with both its prefixes, after a call that failed
C23_Witness ==
    /\ calls = 2
    /\ add_result = IncompleteVersionExists
    /\ DOMAIN context = {"a", "a_a", "a_a_a"}

\* ------------------------------------------------------- C24
\* C24: a call of add_phrase that returns Err leaves the mapping exactly as
\* it was before the call.
C24_FailingCallStoresNothing ==
    [][(Called /\ add_result' \in {CompleteVersionExists, IncompleteVersionExists})
          => context' = context]_vars

\* a_a, then a_a_a, which fails at the Complete prefix a_a
C24_Witness ==
    /\ calls = 2
    /\ phrase = <<"a", "_", "a", "_", "a">>
    /\ add_result = CompleteVersionExists
    /\ DOMAIN context = {"a", "a_a"}

\* ------------------------------------------------------- C26
\* the results and the final mapping of two calls made one after the other
TwoCalls(part_map, first, second) ==
    LET r1 == add_phrase(part_map, first)
        r2 == add_phrase(r1.part_map, second)
    IN  [first |-> r1.result, second |-> r2.result, part_map |-> r2.part_map]

\* C26: for every two phrases p and q and every registry reached, if
\* add_phrase(p) and then add_phrase(q) both return Ok, then add_phrase(q)
\* and then add_phrase(p) from the same registry both return Ok and leave
\* the same mapping.  The step is the call with p; q is any text.
C26_OrderDoesNotMatter ==
    [][(Called /\ add_result' = Ok) =>
         \A q \in PhraseTexts :
            LET after == add_phrase(context', q)
                swapped == TwoCalls(context, q, phrase')
            IN  after.result = Ok =>
                   /\ swapped.first = Ok
                   /\ swapped.second = Ok
                   /\ swapped.part_map = after.part_map
      ]_vars

\* a_aa and then a_a were registered, both with Ok, under the shared prefix a
C26_Witness ==
    /\ calls = 2 /\ add_result = Ok
    /\ phrase = <<"a", "_", "a">>
    /\ DOMAIN context = {"a", "a_a", "a_aa"}
    /\ context["a_aa"] = Complete

\* ------------------------------------------------------- C25
\* the check about to run looks up a text whose status is Complete: the
\* word merged with the open accumulator, or the word alone
LooksUpComplete == Closing \/ ResolvingSingleWord

\* C25: while no status lookup has returned Complete the tree being built
\* equals the input tree, nodes and root: a step that starts from an
\* unchanged tree and looks up no Complete text leaves it equal to the
\* input, so a call without a Complete lookup returns the input tree, an
\* accumulator left open at the end included.
C25_UntouchedWithoutComplete ==
    [][(new_result = parse_result /\ ~LooksUpComplete)
          => new_result' = parse_result]_vars

\* a call over several nodes has returned the input tree with an
\* accumulator still open
C25_Witness ==
    /\ pc = "Ok"
    /\ phrases # <<>>
    /\ Len(parse_result.nodes) >= 3
    /\ new_result = parse_result

\* ------------------------------------------------------- C27
\* no value occurs twice in the sequence
NoRepeat(seq) == \A i, j \in 1..Len(seq) : seq[i] = seq[j] => i = j

\* C27: during a call on a well-formed tree no node index is held more than
\* once in the argument list of one accumulator.
C27_ArgumentsAppendedOnce ==
    WellFormed(parse_result) =>
       \A k \in 1..Len(phrases) : NoRepeat(phrases[k].arguments)

\* ------------------------------------------------------- C28
\* C28: at every step the running text of every accumulator on the stack,
\* its parts joined by "_", has status Incomplete: an accumulator is pushed
\* only for a word that alone is Incomplete, its parts change only when the
\* text merged with the checked word is Incomplete, and it is popped only
\* by a close, which a Complete merged text starts.
C28_OpenTextIncomplete ==
    [][/\ \A k \in 1..Len(phrases') :
             get_phrase_status(context', full_text(phrases'[k])) = Incomplete
       /\ Len(phrases') > Len(phrases) =>
             /\ Checking
             /\ Status(Text(CheckedIndex)) = Incomplete
             /\ phrases' = Append(phrases, PhraseInfoNew(Text(CheckedIndex)))
       /\ (Len(phrases') = Len(phrases) /\ phrases # <<>>
             /\ Last(phrases').phrase_parts # Last(phrases).phrase_parts) =>
             /\ Checking
             /\ Status(MergedText) = Incomplete
             /\ Last(phrases').phrase_parts
                   = Append(Last(phrases).phrase_parts, Text(CheckedIndex))
       /\ Len(phrases') < Len(phrases) =>
             /\ Closing \/ pc = "walk"
             /\ Len(phrases') = Len(phrases) - 1
      ]_vars

\* two accumulators are open and the lower one has been extended
C28_Witness ==
    /\ Len(phrases) = 2
    /\ Len(phrases[1].phrase_parts) = 2
    /\ Len(phrases[2].phrase_parts) = 1

====
